---- MODULE Spec2Model ----
(***************************************************************************)
(* Deduplicating archiver (archive.py).                                     *)
(*                                                                          *)
(* The model follows archive() statement by statement.  Every filesystem   *)
(* or database call of the per-file pipeline is one action, so that the    *)
(* states between two calls (where a call may raise) are states of the     *)
(* model.  File contents are short byte sequences; BLOCKSIZE and MIN_SIZE  *)
(* are scaled down with them.  Exceptions follow Python 3, where IOError   *)
(* is OSError: every os.* / shutil.* failure inside the try block is       *)
(* caught at line 120, sqlite3 errors and the os.stat of line 74 are not.  *)
(***************************************************************************)
EXTENDS Naturals, Sequences, FiniteSets, TLC

\* ------------------------------------------------------------------ bounds
MaxLen == 2        \* length in bytes of the archivable files of the model
MaxRuns == 2       \* invocations of the program (__main__) in one behaviour
MaxFaults == 1     \* injected failures of a system call in one behaviour

\* -------------------------------------------------------- program constants
BLOCKSIZE == 1     \* bytes per read (65536 in the source, scaled)
MIN_SIZE == 2      \* smallest file that is archived (1024 in the source, scaled)
CHECK_BYTES == TRUE

\* ------------------------------------------------------------------- bytes
Bytes == {1, 2}
Contents == UNION {[1..n -> Bytes] : n \in 0..MaxLen}

Min(a, b) == IF a < b THEN a ELSE b

\* fh.read(BLOCKSIZE) at offset off: at most BLOCKSIZE bytes, <<>> at end of file
ReadBlock(c, off) == SubSeq(c, off + 1, Min(Len(c), off + BLOCKSIZE))

\* the read loop of lines 83-86: the bytes fed to hasher.update, block by block
RECURSIVE HashBlocks(_, _, _)
HashBlocks(c, off, acc) ==
  LET buf == ReadBlock(c, off)
  IN  IF Len(buf) > 0 THEN HashBlocks(c, off + Len(buf), acc \o buf) ELSE acc

\* hasher.hexdigest(): a fixed-length digest, injective on the model's contents
\* (the length of the message, then its bytes, padded with 0)
hexdigest(msg) == <<Len(msg)>> \o msg \o [k \in 1..(MaxLen - Len(msg)) |-> 0]

\* h of line 87 and first_buf of line 83
FirstBlockOnly(c) == [h |-> hexdigest(ReadBlock(c, 0)), first_buf |-> ReadBlock(c, 0)]
Fingerprint(c) == [h |-> hexdigest(HashBlocks(c, 0, <<>>)), first_buf |-> ReadBlock(c, 0)]

Digests == {hexdigest(c) : c \in Contents}

\* h[:2], the shard directory of line 88
Shard(h) == SubSeq(h, 1, 2)

\* os.path.join(absolute_target, h[:2], h)
TargetFile(h) == [shard |-> Shard(h), name |-> h]

\* a symlink target outside the store
Elsewhere == [shard |-> <<>>, name |-> <<>>]

\* ------------------------------------------------------------- file modes
WriteBits == {"S_IWUSR", "S_IWGRP", "S_IWOTH"}
\* the mode of an ordinary source file (0664), write bits only
SourceMode == {"S_IWUSR", "S_IWGRP"}
\* the mode open() gives a new file under umask 022
DefaultMode == {"S_IWUSR"}

\* line 116: current & ~S_IWUSR & ~S_IWGRP & ~S_IWOTH
StripWrite(mode) == mode \ {"S_IWUSR", "S_IWGRP", "S_IWOTH"}

\* ------------------------------------------------------------ source tree
\* Two source roots.  r1 holds directory d with two files and lnk, a symlink
\* to d, which os.walk(followlinks=True) descends into; r2 holds one file.
Roots == <<"r1", "r2">>
RealPaths == {"r1/d/f1", "r1/d/f2", "r2/f3"}
Paths == RealPaths \cup {"r1/lnk/f1", "r1/lnk/f2"}

\* the directory entry a path names (the directory symlink resolved)
Resolve(p) ==
  CASE p = "r1/lnk/f1" -> "r1/d/f1"
    [] p = "r1/lnk/f2" -> "r1/d/f2"
    [] OTHER -> p

\* os.walk(absolute_source, followlinks=True), top-down, joined with filenames.
\* The order is the order of the directory listings: links_first when the
\* listing of r1 names lnk before d, reversed when that of d names f2 before f1.
Listing(root, links_first, reversed) ==
  IF root = "r1"
  THEN LET through_d == IF reversed THEN <<"r1/d/f2", "r1/d/f1">>
                        ELSE <<"r1/d/f1", "r1/d/f2">>
           through_lnk == IF reversed THEN <<"r1/lnk/f2", "r1/lnk/f1">>
                          ELSE <<"r1/lnk/f1", "r1/lnk/f2">>
       IN  IF links_first THEN through_lnk \o through_d ELSE through_d \o through_lnk
  ELSE <<"r2/f3">>

File(c) == [kind |-> "file", content |-> c, mode |-> SourceMode, target |-> Elsewhere]
Link(t) == [kind |-> "link", content |-> <<>>, mode |-> {}, target |-> t]
Absent == [kind |-> "absent", content |-> <<>>, mode |-> {}, target |-> Elsewhere]

NoEntry == [present |-> FALSE, content |-> <<>>, mode |-> {}]
Entry(c, m) == [present |-> TRUE, content |-> c, mode |-> m]

\* the contents the files of the model are drawn from
ContentA == [k \in 1..MaxLen |-> 1]
ContentB == [k \in 1..MaxLen |-> IF k = 1 THEN 2 ELSE 1]
ContentTail == [k \in 1..MaxLen |-> IF k = MaxLen THEN 2 ELSE 1]
ContentSmall == <<1>>
Truncated(c) == SubSeq(c, 1, Len(c) - 1)

VARIABLES
  fs,           \* source tree: RealPaths -> File / Link / Absent
  store,        \* target dir: digest -> canonical entry
  shards,       \* target dir: the shard directories that exist
  db,           \* target dir: whether db.sqlite exists
  journal,      \* rows of table link, in insertion order
  pc,           \* position of the program
  args,         \* dry, copy, source of the invocation, and the listing order
  rootIdx,      \* index in args.source of the root being archived
  i,            \* index in the walk of the candidate being handled
  considered, added, source_size, saved_size, dry_archive,
  cur,          \* source_file, file_size, first_buf, h of the candidate
  runs,         \* invocations started
  faults,       \* failures injected
  aborted,      \* the invocation ended by an uncaught exception
  snap,         \* the filesystem when the invocation started
  cls,          \* how the invocation handled each path
  reports,      \* the totals logged at line 124, one per root
  origin,       \* the source tree before the first invocation
  origin_store, \* the store before the first invocation
  prev,         \* args, cls, reports and outcome of the invocation before
  other         \* a second archive() running at the same time, on its own root

world == <<fs, store, shards, db, journal>>
locals == <<considered, added, source_size, saved_size, dry_archive, cur>>
vars == <<fs, store, shards, db, journal, pc, args, rootIdx, i, considered, added,
          source_size, saved_size, dry_archive, cur, runs, faults, aborted, snap,
          cls, reports, origin, origin_store, prev, other>>
history == <<origin, origin_store, other>>

NoCur == [source_file |-> "", file_size |-> 0, first_buf |-> <<>>, h |-> <<>>]
NoArgs == [dry |-> FALSE, copy |-> FALSE, source |-> Roots,
           links_first |-> FALSE, reversed |-> FALSE]
NoFinal == [fs |-> <<>>, store |-> <<>>, shards |-> {}, journal |-> <<>>]
NoCls == [p \in Paths |-> "none"]
NoSnap == [fs |-> <<>>, store |-> <<>>, shards |-> {}, db |-> FALSE, journal |-> <<>>,
           faults |-> 0]
\* the second archive(): real mode, shutil.move, one candidate r3/f4 of
\* ContentA's bytes; overlapped tells whether it ran while the first was running
OtherPath == "r3/f4"
NoOther == [pc |-> "idle", file |-> [kind |-> "file", content |-> ContentA,
                                     mode |-> SourceMode, target |-> Elsewhere],
            file_size |-> 0, first_buf |-> <<>>, h |-> <<>>, class |-> "none",
            began |-> 0, overlapped |-> FALSE, rewrote |-> FALSE]
NoPrev == [ran |-> FALSE, args |-> NoArgs, cls |-> NoCls, reports |-> <<>>,
           aborted |-> FALSE, faults |-> 0, snap |-> NoSnap, final |-> NoFinal]


\* ------------------------------------------------------------------- Init
\* The source files are ordinary files or symlinks someone made; the target
\* directory is fresh, or was used before and holds the entry of ContentA's
\* digest: intact, or corrupted (another first block, another tail, cut short).
InitNodes == {File(ContentA), File(ContentB), File(ContentSmall), Link(Elsewhere)}
InitEntries == {Entry(ContentA, {}), Entry(ContentB, {}), Entry(ContentTail, {}),
                Entry(Truncated(ContentA), {})}

InitWith(nodes, entries) ==
  /\ fs \in [RealPaths -> nodes]
  /\ \E e \in entries \cup {NoEntry} :
       /\ store = [d \in Digests |-> IF d = hexdigest(ContentA) THEN e ELSE NoEntry]
       /\ shards = IF e.present THEN {Shard(hexdigest(ContentA))} ELSE {}
       /\ db = e.present
  /\ journal = <<>>
  /\ pc = "idle"
  /\ args = NoArgs
  /\ rootIdx = 0
  /\ i = 0
  /\ considered = 0 /\ added = 0 /\ source_size = 0 /\ saved_size = 0
  /\ dry_archive = {}
  /\ cur = NoCur
  /\ runs = 0
  /\ faults = 0
  /\ aborted = FALSE
  /\ snap = [fs |-> fs, store |-> store, shards |-> shards, db |-> db, journal |-> journal, faults |-> 0]
  /\ cls = NoCls
  /\ reports = <<>>
  /\ origin = fs
  /\ origin_store = store
  /\ other = NoOther
  /\ prev = NoPrev

Init == InitWith(InitNodes, InitEntries)

\* the same with a target directory that is fresh or intact
InitIntact == InitWith(InitNodes, {Entry(ContentA, {})})

\* a fresh target directory and ordinary files, for the runs in which system
\* calls fail
InitFaults == InitWith({File(ContentA), File(ContentB), File(ContentSmall)}, {})

\* ---------------------------------------------------------------- helpers
Walk(r) == Listing(r, args.links_first, args.reversed)
root == args.source[rootIdx]
source_file == Walk(root)[i]
node == fs[Resolve(source_file)]

\* os.path.islink(source_file)
NeverLink(n) == FALSE
islink(n) == n.kind = "link"

\* os.path.exists(target_file)
NeverExists(t) == FALSE
exists(t) == t.shard \in shards /\ t.name \in Digests /\ store[t.name].present

\* what open()/os.stat() reach through a path: the file itself, or the file a
\* symlink points to (the file outside the store is one of ContentA's bytes)
Readable(n) == n.kind = "file" \/ (n.kind = "link" /\ (n.target = Elsewhere \/ exists(n.target)))
ReadContent(n) ==
  IF n.kind = "file" THEN n.content
  ELSE IF n.target = Elsewhere THEN ContentA
  ELSE store[n.target.name].content

\* check_bytes(first_buf, target_file), lines 29-36
AlwaysEqual(first_buf, t) == TRUE
check_bytes(first_buf, t) == first_buf = ReadBlock(store[t.name].content, 0)

\* the condition of line 89
DuplicateIgnoringSize(h, file_size) ==
  exists(TargetFile(h)) \/ (args.dry /\ h \in dry_archive)
IsDuplicate(h, file_size) ==
  \/ exists(TargetFile(h)) /\ file_size = Len(store[h].content)
  \/ args.dry /\ h \in dry_archive

\* the size test of line 76
NeverBelow(file_size) == FALSE
BelowMinSize(file_size) == file_size < MIN_SIZE

\* the row of line 99 / line 118; added is the insertion time
Row(src, t) == [source |-> src, target |-> t, added |-> Len(journal) + 1]

\* `continue`, or falling through to the end of the loop body; class is what
\* became of the candidate: "symlink", "small" (skipped), "first", "dup"
\* (rewired, or would be), "verify" (check_bytes failed), or the position at
\* which a call raised
Continue(class) ==
  /\ cls' = [cls EXCEPT ![source_file] = class]
  /\ i' = i + 1
  /\ pc' = "walk"
  /\ cur' = NoCur

\* an exception that nothing catches: archive() and the program end
Abort(class) ==
  /\ cls' = [cls EXCEPT ![source_file] = class]
  /\ aborted' = TRUE
  /\ pc' = "idle"
  /\ rootIdx' = 0 /\ i' = 0
  /\ considered' = 0 /\ added' = 0 /\ source_size' = 0 /\ saved_size' = 0
  /\ dry_archive' = {}
  /\ cur' = NoCur

\* ---------------------------------------------------------------- actions
\* lines 127-143: the program starts with --dry / --copy as given, the roots
\* in the order of Roots
Main(dry, copy) ==
  /\ pc = "idle" /\ runs < MaxRuns
  /\ runs' = runs + 1
  /\ args' = [NoArgs EXCEPT !.dry = dry, !.copy = copy]
  /\ prev' = IF runs = 0 THEN NoPrev
             ELSE [ran |-> TRUE, args |-> args, cls |-> cls, reports |-> reports,
                   aborted |-> aborted, faults |-> faults - snap.faults,
                   snap |-> snap,
                   final |-> [fs |-> fs, store |-> store, shards |-> shards,
                              journal |-> journal]]
  /\ snap' = [fs |-> fs, store |-> store, shards |-> shards, db |-> db,
              journal |-> journal, faults |-> faults]
  /\ cls' = NoCls /\ reports' = <<>> /\ aborted' = FALSE
  /\ rootIdx' = 1 /\ pc' = "open"
  /\ UNCHANGED <<world, i, locals, faults, history>>

\* lines 39-57: open the journal, zero the counters
ArchiveOpen ==
  /\ pc = "open"
  /\ db' = TRUE
  /\ considered' = 0 /\ added' = 0 /\ source_size' = 0 /\ saved_size' = 0
  /\ dry_archive' = {}
  /\ i' = 1 /\ pc' = "walk"
  /\ UNCHANGED <<fs, store, shards, journal, args, rootIdx, cur, runs, faults,
                 aborted, snap, cls, reports, history, prev>>

\* lines 59-78: the next filename of the walk, up to the size test
Consider ==
  /\ pc = "walk" /\ i <= Len(Walk(root))
  /\ IF node.kind = "absent"
     THEN \* not in the directory listing
          /\ i' = i + 1
          /\ UNCHANGED <<pc, considered, source_size, cur, cls, aborted, rootIdx,
                         added, saved_size, dry_archive>>
     ELSE IF islink(node)
     THEN /\ considered' = considered + 1
          /\ Continue("symlink")
          /\ UNCHANGED <<source_size, aborted, rootIdx, added, saved_size, dry_archive>>
     ELSE IF ~Readable(node)
     THEN Abort("stat")   \* os.stat raises outside the try block
     ELSE LET file_size == Len(ReadContent(node))
          IN  /\ considered' = considered + 1
              /\ source_size' = source_size + file_size
              /\ IF BelowMinSize(file_size)
                 THEN Continue("small")
                 ELSE /\ pc' = "hash"
                      /\ cur' = [NoCur EXCEPT !.source_file = source_file,
                                              !.file_size = file_size]
                      /\ UNCHANGED <<i, cls>>
              /\ UNCHANGED <<aborted, rootIdx, added, saved_size, dry_archive>>
  /\ UNCHANGED <<world, args, runs, faults, snap, reports, history, prev>>

\* lines 80-91 and 102-106: fingerprint, classify; a dry run ends here
Hash ==
  /\ pc = "hash"
  /\ LET fp == Fingerprint(ReadContent(node))
     IN  IF IsDuplicate(fp.h, cur.file_size)
         THEN IF args.dry
              THEN /\ saved_size' = saved_size + cur.file_size
                   /\ added' = added + 1
                   /\ Continue("dup")
                   /\ UNCHANGED dry_archive
              ELSE /\ pc' = "check"
                   /\ cur' = [cur EXCEPT !.h = fp.h, !.first_buf = fp.first_buf]
                   /\ UNCHANGED <<i, cls, added, saved_size, dry_archive>>
         ELSE IF args.dry
              THEN /\ dry_archive' = dry_archive \cup {fp.h}
                   /\ added' = added + 1
                   /\ Continue("first")
                   /\ UNCHANGED saved_size
              ELSE /\ pc' = "mkdir"
                   /\ cur' = [cur EXCEPT !.h = fp.h, !.first_buf = fp.first_buf]
                   /\ UNCHANGED <<i, cls, added, saved_size, dry_archive>>
  /\ UNCHANGED <<world, args, rootIdx, considered, source_size, runs, faults,
                 aborted, snap, reports, history, prev>>

\* lines 93-95
CheckBytes ==
  /\ pc = "check"
  /\ IF CHECK_BYTES /\ ~check_bytes(cur.first_buf, TargetFile(cur.h))
     THEN Continue("verify")
     ELSE /\ pc' = "dup_remove"
          /\ UNCHANGED <<i, cls, cur>>
  /\ UNCHANGED <<world, args, rootIdx, considered, added, source_size, saved_size,
                 dry_archive, runs, faults, aborted, snap, reports, history, prev>>

\* line 97
DupRemove ==
  /\ pc = "dup_remove"
  /\ fs' = [fs EXCEPT ![Resolve(source_file)] = Absent]
  /\ pc' = "dup_symlink"
  /\ UNCHANGED <<store, shards, db, journal, args, rootIdx, i, locals, runs, faults,
                 aborted, snap, cls, reports, history, prev>>

\* line 98
DupSymlink ==
  /\ pc = "dup_symlink"
  /\ fs' = [fs EXCEPT ![Resolve(source_file)] = Link(TargetFile(cur.h))]
  /\ pc' = "dup_insert"
  /\ UNCHANGED <<store, shards, db, journal, args, rootIdx, i, locals, runs, faults,
                 aborted, snap, cls, reports, history, prev>>

\* lines 99-102 and 123
DupInsert ==
  /\ pc = "dup_insert"
  /\ journal' = Append(journal, Row(source_file, TargetFile(cur.h)))
  /\ saved_size' = saved_size + cur.file_size
  /\ added' = added + 1
  /\ Continue("dup")
  /\ UNCHANGED <<fs, store, shards, db, args, rootIdx, considered, source_size,
                 dry_archive, runs, faults, aborted, snap, reports, history, prev>>

\* lines 108-110
Mkdir ==
  /\ pc = "mkdir"
  /\ shards' = shards \cup {Shard(cur.h)}
  /\ pc' = IF args.copy THEN "copy" ELSE "move"
  /\ UNCHANGED <<fs, store, db, journal, args, rootIdx, i, locals, runs, faults,
                 aborted, snap, cls, reports, history, prev>>

\* line 111: shutil.copy writes the bytes, then copies the mode; open() for
\* writing raises PermissionError on an entry the owner may not write
Copy ==
  /\ pc = "copy"
  /\ IF store[cur.h].present /\ "S_IWUSR" \notin store[cur.h].mode
     THEN /\ Continue("copy")
          /\ UNCHANGED store
     ELSE /\ store' = [store EXCEPT ![cur.h] = Entry(node.content, node.mode)]
          /\ pc' = "copy_remove"
          /\ UNCHANGED <<i, cls, cur>>
  /\ UNCHANGED <<fs, shards, db, journal, args, rootIdx, considered, added,
                 source_size, saved_size, dry_archive, runs, faults, aborted, snap,
                 reports, history, prev>>

\* line 112
CopyRemove ==
  /\ pc = "copy_remove"
  /\ fs' = [fs EXCEPT ![Resolve(source_file)] = Absent]
  /\ pc' = "chmod"
  /\ UNCHANGED <<store, shards, db, journal, args, rootIdx, i, locals, runs, faults,
                 aborted, snap, cls, reports, history, prev>>

\* line 114: shutil.move renames the file onto the canonical path, replacing
\* whatever is there
Move ==
  /\ pc = "move"
  /\ store' = [store EXCEPT ![cur.h] = Entry(node.content, node.mode)]
  /\ fs' = [fs EXCEPT ![Resolve(source_file)] = Absent]
  /\ pc' = "chmod"
  /\ UNCHANGED <<shards, db, journal, args, rootIdx, i, locals, runs, faults,
                 aborted, snap, cls, reports, history, prev>>

\* lines 115-116
Chmod ==
  /\ pc = "chmod"
  /\ store' = [store EXCEPT ![cur.h].mode = StripWrite(@)]
  /\ pc' = "new_symlink"
  /\ UNCHANGED <<fs, shards, db, journal, args, rootIdx, i, locals, runs, faults,
                 aborted, snap, cls, reports, history, prev>>

\* line 117
Symlink ==
  /\ pc = "new_symlink"
  /\ fs' = [fs EXCEPT ![Resolve(source_file)] = Link(TargetFile(cur.h))]
  /\ pc' = "insert"
  /\ UNCHANGED <<store, shards, db, journal, args, rootIdx, i, locals, runs, faults,
                 aborted, snap, cls, reports, history, prev>>

\* lines 118-119 and 123
Insert ==
  /\ pc = "insert"
  /\ journal' = Append(journal, Row(source_file, TargetFile(cur.h)))
  /\ added' = added + 1
  /\ Continue("first")
  /\ UNCHANGED <<fs, store, shards, db, args, rootIdx, considered, source_size,
                 saved_size, dry_archive, runs, faults, aborted, snap, reports, history, prev>>

\* line 124, then the loop of lines 143-144
Report ==
  /\ pc = "walk" /\ i > Len(Walk(root))
  /\ reports' = Append(reports, [root |-> root, added |-> added,
                                 considered |-> considered,
                                 source_size |-> source_size,
                                 saved_size |-> saved_size])
  /\ considered' = 0 /\ added' = 0 /\ source_size' = 0 /\ saved_size' = 0
  /\ dry_archive' = {}
  /\ IF rootIdx < Len(args.source)
     THEN rootIdx' = rootIdx + 1 /\ pc' = "open" /\ i' = 0
     ELSE rootIdx' = 0 /\ pc' = "idle" /\ i' = 0
  /\ UNCHANGED <<world, args, cur, runs, faults, aborted, snap, cls, history, prev>>

\* ----------------------------------------------------------------- faults
\* A system call fails.  Inside the try block (lines 80-119) the exception is
\* an IOError: line 120 catches it and the loop continues.  os.stat at line 74
\* is outside the try block, and a failing insert or commit raises a
\* sqlite3.Error, which is no IOError: both end archive() and the program.
Inject == faults < MaxFaults /\ faults' = faults + 1

\* line 74 raises (the file vanished, or may not be stat'ed)
StatFault ==
  /\ pc = "walk" /\ i <= Len(Walk(root))
  /\ node.kind = "file"
  /\ Inject
  /\ Abort("stat")
  /\ UNCHANGED <<world, args, runs, snap, reports, history, prev>>

\* a call of the try block raises before it changed anything: open/read of
\* lines 82-86, open of check_bytes, os.remove, os.makedirs, os.chmod, os.symlink
CaughtFault ==
  /\ pc \in {"hash", "check", "dup_remove", "dup_symlink", "mkdir", "copy_remove",
             "chmod", "new_symlink"}
  /\ Inject
  /\ Continue(pc)
  /\ UNCHANGED <<world, args, rootIdx, considered, added, source_size, saved_size,
                 dry_archive, runs, aborted, snap, reports, history, prev>>

\* what a copy that stops after n bytes leaves at the canonical path: the
\* first n bytes of the source, in a new file or in the file that was there
PartialEntry(n) ==
  Entry(SubSeq(node.content, 1, n),
        IF store[cur.h].present THEN store[cur.h].mode ELSE DefaultMode)

\* line 111 raises part-way (disk full, read error)
CopyFault ==
  /\ pc = "copy"
  /\ ~(store[cur.h].present /\ "S_IWUSR" \notin store[cur.h].mode)
  /\ Inject
  /\ \E n \in 0..(Len(node.content) - 1) :
       store' = [store EXCEPT ![cur.h] = PartialEntry(n)]
  /\ Continue(pc)
  /\ UNCHANGED <<fs, shards, db, journal, args, rootIdx, considered, added,
                 source_size, saved_size, dry_archive, runs, aborted, snap, reports,
                 history, prev>>

\* line 114 raises: the rename failed and nothing changed, or (the store is on
\* another filesystem, where shutil.move copies and then unlinks) the copy
\* stopped after n bytes
MoveFault ==
  /\ pc = "move"
  /\ Inject
  /\ \/ UNCHANGED store
     \/ /\ ~(store[cur.h].present /\ "S_IWUSR" \notin store[cur.h].mode)
        /\ \E n \in 0..(Len(node.content) - 1) :
             store' = [store EXCEPT ![cur.h] = PartialEntry(n)]
  /\ Continue(pc)
  /\ UNCHANGED <<fs, shards, db, journal, args, rootIdx, considered, added,
                 source_size, saved_size, dry_archive, runs, aborted, snap, reports,
                 history, prev>>

\* line 99-100 or 118-119 raises sqlite3.Error (database locked, disk full)
InsertFault ==
  /\ pc \in {"dup_insert", "insert"}
  /\ Inject
  /\ Abort(pc)
  /\ UNCHANGED <<world, args, runs, snap, reports, history, prev>>

Fault ==
  \/ StatFault
  \/ CaughtFault
  \/ CopyFault
  \/ MoveFault
  \/ InsertFault

Next ==
  \/ \E dry \in BOOLEAN, copy \in BOOLEAN : Main(dry, copy)
  \/ ArchiveOpen
  \/ Consider
  \/ Hash
  \/ CheckBytes
  \/ DupRemove
  \/ DupSymlink
  \/ DupInsert
  \/ Mkdir
  \/ Copy
  \/ CopyRemove
  \/ Move
  \/ Chmod
  \/ Symlink
  \/ Insert
  \/ Report

Spec == Init /\ [][Next]_vars

\* the program on a target directory nothing has corrupted
SpecIntact == InitIntact /\ [][Next]_vars

\* the program with failing system calls
SpecFaults == InitFaults /\ [][Next \/ Fault]_vars

\* ------------------------------------------- a second archive() at once
\* Another invocation of the program on the same target directory, with its
\* own source root: the same steps of lines 39-123 on its one candidate.
\* Nothing in the code keeps the steps of the two from interleaving.
OtherStep(position) ==
  [other EXCEPT !.pc = position,
                !.overlapped = other.overlapped \/ pc # "idle" \/ runs # other.began]

\* lines 39-78: connect, walk to the candidate, stat it
OtherOpen ==
  /\ other.pc = "idle"
  /\ db' = TRUE
  /\ other' = [other EXCEPT !.pc = "hash",
                            !.file_size = Len(other.file.content),
                            !.began = runs,
                            !.overlapped = pc # "idle"]
  /\ UNCHANGED <<fs, store, shards, journal, pc, args, rootIdx, i, locals, runs,
                 faults, aborted, snap, cls, reports, origin, origin_store, prev>>

\* lines 80-89: fingerprint, classify
OtherHash ==
  /\ other.pc = "hash"
  /\ LET fp == Fingerprint(other.file.content)
         duplicate == /\ exists(TargetFile(fp.h))
                      /\ other.file_size = Len(store[fp.h].content)
     IN  other' = [OtherStep(IF duplicate THEN "check" ELSE "mkdir") EXCEPT
                     !.h = fp.h, !.first_buf = fp.first_buf,
                     !.class = IF duplicate THEN "dup" ELSE "first"]
  /\ UNCHANGED <<world, pc, args, rootIdx, i, locals, runs, faults, aborted, snap,
                 cls, reports, origin, origin_store, prev>>

\* lines 93-95
OtherCheckBytes ==
  /\ other.pc = "check"
  /\ other' = IF CHECK_BYTES /\ ~check_bytes(other.first_buf, TargetFile(other.h))
              THEN [OtherStep("done") EXCEPT !.class = "verify"]
              ELSE OtherStep("dup_remove")
  /\ UNCHANGED <<world, pc, args, rootIdx, i, locals, runs, faults, aborted, snap,
                 cls, reports, origin, origin_store, prev>>

\* line 97
OtherDupRemove ==
  /\ other.pc = "dup_remove"
  /\ other' = [OtherStep("dup_symlink") EXCEPT !.file = Absent]
  /\ UNCHANGED <<world, pc, args, rootIdx, i, locals, runs, faults, aborted, snap,
                 cls, reports, origin, origin_store, prev>>

\* line 98
OtherDupSymlink ==
  /\ other.pc = "dup_symlink"
  /\ other' = [OtherStep("dup_insert") EXCEPT !.file = Link(TargetFile(other.h))]
  /\ UNCHANGED <<world, pc, args, rootIdx, i, locals, runs, faults, aborted, snap,
                 cls, reports, origin, origin_store, prev>>

\* lines 99-100 and 118-119
OtherInsert ==
  /\ other.pc \in {"dup_insert", "insert"}
  /\ journal' = Append(journal, Row(OtherPath, TargetFile(other.h)))
  /\ other' = OtherStep("done")
  /\ UNCHANGED <<fs, store, shards, db, pc, args, rootIdx, i, locals, runs, faults,
                 aborted, snap, cls, reports, origin, origin_store, prev>>

\* lines 108-109
OtherMkdir ==
  /\ other.pc = "mkdir"
  /\ shards' = shards \cup {Shard(other.h)}
  /\ other' = OtherStep("move")
  /\ UNCHANGED <<fs, store, db, journal, pc, args, rootIdx, i, locals, runs, faults,
                 aborted, snap, cls, reports, origin, origin_store, prev>>

\* line 114; rewrote: the canonical path already held an entry
OtherMove ==
  /\ other.pc = "move"
  /\ store' = [store EXCEPT ![other.h] = Entry(other.file.content, other.file.mode)]
  /\ other' = [OtherStep("chmod") EXCEPT !.file = Absent,
                                         !.rewrote = store[other.h].present]
  /\ UNCHANGED <<fs, shards, db, journal, pc, args, rootIdx, i, locals, runs, faults,
                 aborted, snap, cls, reports, origin, origin_store, prev>>

\* lines 115-116
OtherChmod ==
  /\ other.pc = "chmod"
  /\ store' = [store EXCEPT ![other.h].mode = StripWrite(@)]
  /\ other' = OtherStep("new_symlink")
  /\ UNCHANGED <<fs, shards, db, journal, pc, args, rootIdx, i, locals, runs, faults,
                 aborted, snap, cls, reports, origin, origin_store, prev>>

\* line 117
OtherSymlink ==
  /\ other.pc = "new_symlink"
  /\ other' = [OtherStep("insert") EXCEPT !.file = Link(TargetFile(other.h))]
  /\ UNCHANGED <<world, pc, args, rootIdx, i, locals, runs, faults, aborted, snap,
                 cls, reports, origin, origin_store, prev>>

OtherNext ==
  \/ OtherOpen
  \/ OtherHash
  \/ OtherCheckBytes
  \/ OtherDupRemove
  \/ OtherDupSymlink
  \/ OtherInsert
  \/ OtherMkdir
  \/ OtherMove
  \/ OtherChmod
  \/ OtherSymlink

\* a fresh target directory, for the two invocations at once
InitConcurrent == InitWith({File(ContentA)}, {})

\* two invocations on one target directory, their steps interleaved
SpecConcurrent == InitConcurrent /\ [][Next \/ OtherNext]_vars

\* ------------------------------------------------ the same start, again
\* The program is started a second time on a copy of the source tree and the
\* target directory as they were before its first, real-mode invocation: with
\* the other transfer mode, or with the same mode and the roots given
\* (lines 143-144) or the directories listed (line 59) in some other order.
Rerun(copy, source, links_first, reversed) ==
  /\ pc = "idle" /\ runs >= 1 /\ runs < MaxRuns
  /\ ~prev.ran /\ ~args.dry /\ ~aborted
  /\ \/ copy # args.copy /\ source = args.source
        /\ links_first = args.links_first /\ reversed = args.reversed
     \/ copy = args.copy
  /\ fs' = snap.fs /\ store' = snap.store /\ shards' = snap.shards
  /\ db' = snap.db /\ journal' = snap.journal
  /\ runs' = runs + 1
  /\ args' = [dry |-> FALSE, copy |-> copy, source |-> source,
              links_first |-> links_first, reversed |-> reversed]
  /\ prev' = [ran |-> TRUE, args |-> args, cls |-> cls, reports |-> reports,
              aborted |-> aborted, faults |-> faults - snap.faults, snap |-> snap,
              final |-> [fs |-> fs, store |-> store, shards |-> shards,
                         journal |-> journal]]
  /\ snap' = [snap EXCEPT !.faults = faults]
  /\ cls' = NoCls /\ reports' = <<>> /\ aborted' = FALSE
  /\ rootIdx' = 1 /\ pc' = "open"
  /\ UNCHANGED <<i, locals, faults, history>>

\* files whose bytes differ in the last byte only, and a target directory
\* that is fresh or holds the entry of ContentA's digest: intact, cut short,
\* or with another last byte
InitReplay ==
  InitWith({File(ContentA), File(ContentTail), File(ContentSmall)},
           {Entry(ContentA, {}), Entry(Truncated(ContentA), {}), Entry(ContentTail, {})})

SpecReplay ==
  InitReplay /\ [][Next \/ \E copy, links_first, reversed \in BOOLEAN :
                            \E source \in {Roots, <<Roots[2], Roots[1]>>} :
                              Rerun(copy, source, links_first, reversed)]_vars

\* ========================================================== the claims
\* an invocation has ended (normally or by an exception)
Ended == pc = "idle" /\ runs > 0
\* the classes of a candidate that met no failure
Clean == {"none", "symlink", "small", "first", "dup"}
\* the invocation rewired the path, or found it a symlink
Handled(c) == c \in {"symlink", "first", "dup"}
\* the path held an archivable regular file before the first invocation
Archivable(p) ==
  origin[Resolve(p)].kind = "file" /\ Len(origin[Resolve(p)].content) >= MIN_SIZE
\* the canonical path of the bytes the path held before the first invocation
Canonical(p) == TargetFile(hexdigest(origin[Resolve(p)].content))
\* the path is a symlink into the store
Rewired(rp) == fs[rp].kind = "link" /\ fs[rp].target # Elsewhere

\* C1 (deduplication): when a real-mode invocation ends, any two distinct
\* source paths that held archivable regular files of the same bytes and were
\* handled without a failure are symlinks to the one canonical path
\* <store>/<digest[:2]>/<digest> of those bytes, and that entry exists.
C1_Deduplication ==
  (Ended /\ ~args.dry /\ ~aborted) =>
    \A p \in Paths, q \in Paths :
      ( /\ p # q
        /\ Archivable(p) /\ Archivable(q)
        /\ origin[Resolve(p)].content = origin[Resolve(q)].content
        /\ Handled(cls[p]) /\ Handled(cls[q]) )
      => /\ fs[Resolve(p)] = Link(Canonical(p))
         /\ fs[Resolve(q)] = Link(Canonical(p))
         /\ exists(Canonical(p))
         /\ Cardinality({d \in Digests : store[d].present /\ TargetFile(d) = Canonical(p)}) = 1

\* two different files of the same bytes, in different roots, both rewired
C1_Witness ==
  /\ Ended /\ ~args.dry
  /\ Archivable("r1/d/f1")
  /\ origin["r1/d/f1"].content = origin["r2/f3"].content
  /\ cls["r1/d/f1"] = "first" /\ cls["r2/f3"] = "dup"
  /\ fs["r1/d/f1"] = fs["r2/f3"]
  /\ Rewired("r2/f3")

\* C2 (idempotence): a real-mode invocation that follows a real-mode invocation
\* which met no failure creates no canonical entry, appends no journal row and
\* leaves every source path as it was (a symlink to the same target).
C2_Idempotence ==
  ( /\ Ended /\ ~args.dry
    /\ prev.ran /\ ~prev.args.dry /\ ~prev.aborted
    /\ \A p \in Paths : prev.cls[p] \in Clean )
  => /\ store = snap.store
     /\ shards = snap.shards
     /\ journal = snap.journal
     /\ fs = snap.fs
     /\ ~aborted
     /\ \A p \in Paths : cls[p] \in {"symlink", "small"}

\* the second of two real runs has ended, and the first one had rewired files
C2_Witness ==
  /\ Ended /\ ~args.dry /\ runs = 2
  /\ prev.ran /\ ~prev.args.dry
  /\ \A p \in Paths : prev.cls[p] \in Clean
  /\ prev.cls["r1/d/f1"] = "first" /\ prev.cls["r1/d/f2"] = "dup"
  /\ Len(journal) >= 2
  /\ Rewired("r1/d/f1")

\* C3 (canonical-entry immutability), as claimed: no step changes the bytes
\* stored at a canonical path that holds an entry, whatever the candidate.
C3_EntryNeverRewritten ==
  [][\A d \in Digests :
       store[d].present => (store'[d].present /\ store'[d].content = store[d].content)]_vars

\* C4 (source-path outcome): when a real-mode invocation ends, after failing
\* system calls or not, every source path is as it was when the invocation
\* began, or is a symlink to the canonical entry of its bytes, which exists and
\* holds all of them; or a call failed for it between the consumption of the
\* source and the creation of the symlink, and the path is gone.
InGap(rp) ==
  /\ fs[rp] = Absent
  /\ \E p \in Paths : Resolve(p) = rp /\ cls[p] \in {"dup_symlink", "chmod", "new_symlink"}
C4_SourcePathOutcome ==
  (Ended /\ ~args.dry) =>
    \A rp \in RealPaths :
      \/ fs[rp] = snap.fs[rp]
      \/ /\ fs[rp] = Link(TargetFile(hexdigest(snap.fs[rp].content)))
         /\ snap.fs[rp].kind = "file"
         /\ exists(fs[rp].target)
         /\ store[fs[rp].target.name].content = snap.fs[rp].content
      \/ InGap(rp)

\* the chmod failed for one file, which is gone, and a later file of the same
\* bytes was rewired to the entry the first one left
C4_Witness ==
  /\ Ended /\ ~args.dry
  /\ cls["r1/d/f1"] = "chmod" /\ faults = 1
  /\ InGap("r1/d/f1")
  /\ cls["r1/d/f2"] = "dup"
  /\ Rewired("r1/d/f2")
  /\ snap.fs["r1/d/f1"].content = snap.fs["r1/d/f2"].content

\* C5 (dry-run non-mutation), as claimed: during and after a dry run the
\* source tree and everything in the target directory are as before the call.
C5_DryRunChangesNothing ==
  (runs > 0 /\ args.dry) =>
    /\ fs = snap.fs
    /\ store = snap.store
    /\ shards = snap.shards
    /\ db = snap.db

\* C6 (dry-run classification consistency), as claimed: a real run that starts
\* from the state a dry run started from classifies every path as the dry run
\* did (skipped, first occurrence, duplicate) and reports the same added and
\* saved-bytes totals for every root.
Class3(c) == IF c \in {"first", "dup"} THEN c ELSE "skipped"
Totals(r) == [k \in 1..Len(r) |-> [added |-> r[k].added, saved_size |-> r[k].saved_size]]
C6_DryRunMatchesRealRun ==
  ( /\ Ended /\ ~args.dry /\ ~aborted
    /\ prev.ran /\ prev.args.dry /\ ~prev.aborted
    /\ prev.snap.fs = snap.fs /\ prev.snap.store = snap.store
    /\ prev.snap.shards = snap.shards
    /\ faults = 0 )
  => /\ \A p \in Paths : Class3(cls[p]) = Class3(prev.cls[p])
     /\ Totals(reports) = Totals(prev.reports)

\* C7 (per-file fault isolation), as claimed: an invocation never ends by an
\* exception; it reports every root.
C7_NoFileAbortsTheRun ==
  Ended => (~aborted /\ Len(reports) = Len(Roots))

\* C8 (journal exactness), as claimed: between per-file steps the journal holds
\* exactly one row for each rewire done so far, and no other row.
BetweenFiles == pc = "walk"
RowsOf(rp) == {k \in 1..Len(journal) : Resolve(journal[k].source) = rp}
C8_JournalExact ==
  BetweenFiles =>
    /\ \A rp \in RealPaths :
         Cardinality(RowsOf(rp)) = (IF Rewired(rp) THEN 1 ELSE 0)
    /\ \A k \in 1..Len(journal) :
         fs[Resolve(journal[k].source)] = Link(journal[k].target)

\* C9 (read-only store), as claimed: between per-file steps every canonical
\* entry that a source symlink points to has no write bit.
C9_LinkedEntriesReadOnly ==
  BetweenFiles =>
    \A rp \in RealPaths :
      (Rewired(rp) /\ exists(fs[rp].target))
        => store[fs[rp].target.name].mode \cap WriteBits = {}

\* C10 (verification fault): in real mode, while the candidate's canonical path
\* holds an entry of the candidate's size whose first block differs from the
\* candidate's, the steps of the candidate leave source tree, store, journal,
\* added and saved bytes alone, and the verification ends with the candidate
\* skipped.
VerificationFault ==
  /\ pc \in {"hash", "check"} /\ ~args.dry
  /\ node.kind = "file"
  /\ LET t == TargetFile(hexdigest(node.content))
     IN  /\ exists(t)
         /\ Len(store[t.name].content) = Len(node.content)
         /\ SubSeq(store[t.name].content, 1, BLOCKSIZE) # SubSeq(node.content, 1, BLOCKSIZE)
C10_VerificationFaultSkips ==
  [][VerificationFault =>
       /\ UNCHANGED <<fs, store, shards, db, journal, added, saved_size>>
       /\ (pc = "hash" => pc' = "check")
       /\ (pc = "check" => /\ pc' = "walk" /\ i' = i + 1
                           /\ cls' = [cls EXCEPT ![source_file] = "verify"])]_vars

\* a candidate was skipped by the verification and is the file it was
C10_Witness ==
  /\ pc = "walk"
  /\ \E p \in Paths :
       /\ cls[p] = "verify"
       /\ fs[Resolve(p)] = snap.fs[Resolve(p)]
       /\ fs[Resolve(p)].kind = "file"
       /\ store = snap.store /\ journal = snap.journal

\* C11 (size threshold): a path that held a regular file smaller than the
\* minimum size before the first invocation is never fingerprinted, never
\* moved, copied or removed, gets no journal row, and is still the same
\* regular file, whatever the mode of the invocations.
BeingHandled(rp) ==
  pc \notin {"idle", "open", "walk"} /\ Resolve(cur.source_file) = rp
C11_SmallFilesUntouched ==
  \A rp \in RealPaths :
    (origin[rp].kind = "file" /\ Len(origin[rp].content) < MIN_SIZE) =>
      /\ fs[rp] = origin[rp]
      /\ ~BeingHandled(rp)
      /\ RowsOf(rp) = {}
      /\ \A p \in Paths : Resolve(p) = rp => cls[p] \in {"none", "small"}

\* a real-mode invocation walked past a small file, by both of its paths, and
\* rewired the file of the other root
C11_Witness ==
  /\ Ended /\ ~args.dry
  /\ origin["r1/d/f1"] = File(ContentSmall)
  /\ cls["r1/d/f1"] = "small" /\ cls["r1/lnk/f1"] = "small"
  /\ fs["r1/d/f1"] = File(ContentSmall)
  /\ Rewired("r2/f3")

\* C12 (symlink exclusion), as claimed: the step that meets a source path which
\* was a symlink when the invocation started opens nothing, leaves the source
\* tree alone, and changes none of the counters: files considered, files
\* added, source bytes, saved bytes.
SymlinkAtStart ==
  /\ pc = "walk" /\ i <= Len(Walk(root))
  /\ snap.fs[Resolve(source_file)].kind = "link"
C12_SymlinksExcluded ==
  [][SymlinkAtStart =>
       /\ fs' = fs /\ store' = store /\ journal' = journal
       /\ pc' = "walk"
       /\ considered' = considered
       /\ added' = added
       /\ source_size' = source_size
       /\ saved_size' = saved_size]_vars

\* the directory entries under a root, and those among them that this
\* invocation turned from a regular file into a symlink into the store
Under(r) == {Resolve(Walk(r)[k]) : k \in 1..Len(Walk(r))}
RewiredNow(r) == {rp \in Under(r) : snap.fs[rp].kind = "file" /\ Rewired(rp)}
RowsNow(r) ==
  {k \in (Len(snap.journal) + 1)..Len(journal) : Resolve(journal[k].source) \in Under(r)}
\* the files of digest h among them, and their size
RewiredOf(r, h) == {rp \in RewiredNow(r) : hexdigest(snap.fs[rp].content) = h}
SizeOf(r, h) ==
  IF RewiredOf(r, h) = {} THEN 0
  ELSE Len(snap.fs[CHOOSE rp \in RewiredOf(r, h) : TRUE].content)
\* the entry of digest h was there when archive() began on report k's root:
\* the invocation found it, or rewired a file of an earlier root to it
ExistedBefore(k, h) ==
  \/ snap.store[h].present
  \/ \E j \in 1..(k - 1) : RewiredOf(reports[j].root, h) # {}
\* the sizes of the rewired files of report k's root, over the digests of D,
\* leaving out one file for each entry that was not there before
RECURSIVE SavedOver(_, _)
SavedOver(k, D) ==
  IF D = {} THEN 0
  ELSE LET h == CHOOSE x \in D : TRUE
           n == Cardinality(RewiredOf(reports[k].root, h))
       IN  SizeOf(reports[k].root, h)
             * (IF ExistedBefore(k, h) \/ n = 0 THEN n ELSE n - 1)
           + SavedOver(k, D \ {h})
CountersExact(k) ==
  /\ reports[k].added = Cardinality(RewiredNow(reports[k].root))
  /\ reports[k].added = Cardinality(RowsNow(reports[k].root))
  /\ reports[k].saved_size = SavedOver(k, Digests)

SizeAtStart(p) == Len(snap.fs[Resolve(p)].content)
RECURSIVE BytesSeen(_, _)
BytesSeen(n, skip) ==
  IF n = 0 THEN 0
  ELSE (IF cls[Walk(root)[n]] \in {"none", "symlink"} \cup skip THEN 0
        ELSE SizeAtStart(Walk(root)[n]))
       + BytesSeen(n - 1, skip)
\* the candidate before the current one was skipped because reading it failed
ReadJustFailed == pc = "walk" /\ i > 1 /\ cls[Walk(root)[i - 1]] = "hash"

\* C14 (fingerprinting fault), as claimed: when reading a candidate failed
\* during hashing, its path, the store and the journal are as they were, and
\* apart from 'files considered' no counter was advanced for it: 'source
\* bytes' is the sum over the candidates whose fingerprinting did not fail,
\* and 'added' counts the rewired candidates only.
C14_ReadFaultCountsNothing ==
  ReadJustFailed =>
    LET p == Walk(root)[i - 1]
    IN  /\ fs[Resolve(p)] = snap.fs[Resolve(p)]
        /\ \A d \in Digests : store[d].present => \E q \in Paths :
             cls[q] # "hash" /\ hexdigest(snap.fs[Resolve(q)].content) = d
        /\ \A k \in (Len(snap.journal) + 1)..Len(journal) : cls[journal[k].source] # "hash"
        /\ added = Cardinality({k \in 1..(i - 1) : cls[Walk(root)[k]] \in {"first", "dup"}})
        /\ source_size = BytesSeen(i - 1, {"hash"})

\* a candidate classified as a first occurrence is transferred onto a canonical
\* path that holds an entry by now: the second invocation did so, or the first
\* is at line 111 / line 114 about to
SecondTransfer ==
  \/ other.rewrote
  \/ pc = "move" /\ store[cur.h].present
  \/ pc = "copy" /\ store[cur.h].present /\ "S_IWUSR" \in store[cur.h].mode

\* the second invocation took a step while the first was running, or is in
\* the middle of its steps while the first is running or has run
Overlapped ==
  \/ other.overlapped
  \/ other.pc \notin {"idle", "done"} /\ (pc # "idle" \/ runs # other.began)

\* C15 (race on the existence check): on a fresh store and without failures, a
\* candidate is transferred onto a canonical path that already holds an entry
\* only if the two invocations overlapped in time; when the second invocation
\* runs wholly before, between or after the runs of the first, no such state
\* is reachable.  (That the state is reachable when they overlap is
\* C15_Witness.)
C15_DoubleTransferNeedsOverlap ==
  SecondTransfer => Overlapped

\* both invocations found no entry for the digest, both took the first
\* occurrence branch, and both moved their file onto the same canonical path
C15_Witness ==
  /\ Ended /\ ~args.dry /\ other.pc = "done"
  /\ cls["r1/d/f1"] = "first" /\ other.class = "first"
  /\ fs["r1/d/f1"] = Link(TargetFile(other.h))
  /\ other.file = Link(TargetFile(other.h))
  /\ other.rewrote
  /\ Cardinality({k \in 1..Len(journal) : journal[k].target = TargetFile(other.h)}) >= 2

\* C17 (no double handling), as claimed: in one invocation each regular file is
\* handled as a candidate at most once, also when a directory symlink of the
\* tree leads to the directory that holds it: of the paths that reach one
\* directory entry, at most one gets past the symlink test of line 67.
C17_EachFileHandledOnce ==
  \A rp \in RealPaths :
    Cardinality({p \in Paths : Resolve(p) = rp /\ cls[p] \notin {"none", "symlink"}}) <= 1

\* the invocation that has ended and the one before it were real-mode
\* invocations from the same source tree, store and journal
SameStart ==
  /\ Ended /\ ~args.dry /\ ~aborted
  /\ prev.ran /\ ~prev.args.dry /\ ~prev.aborted
  /\ snap.fs = prev.snap.fs /\ snap.store = prev.snap.store
  /\ snap.shards = prev.snap.shards /\ snap.journal = prev.snap.journal
SameOrder ==
  /\ args.source = prev.args.source
  /\ args.links_first = prev.args.links_first
  /\ args.reversed = prev.args.reversed
\* the rows without the insertion time
Pairs(j) == [k \in 1..Len(j) |-> <<j[k].source, j[k].target>>]

\* C16 (transfer modes), as claimed: a copy=True invocation and a copy=False
\* invocation that start from the same source tree and store, and walk it in
\* the same order, end with the same store, the same source tree, the same
\* journal rows up to the insertion time and the same counters, also when a
\* canonical path holds a read-only entry of another size.
C16_TransferModesAgree ==
  (SameStart /\ SameOrder /\ args.copy # prev.args.copy) =>
    /\ store = prev.final.store
    /\ shards = prev.final.shards
    /\ fs = prev.final.fs
    /\ Pairs(journal) = Pairs(prev.final.journal)
    /\ reports = prev.reports

\* reading the path, through its symlink if it is one, gives the bytes the
\* path held before the first invocation
ReadsBack(rp) ==
  /\ Readable(fs[rp])
  /\ ReadContent(fs[rp]) = origin[rp].content
\* before the first invocation every entry of the store held the bytes its
\* name is the digest of
StoreIntactAtStart ==
  \A d \in Digests : origin_store[d].present => hexdigest(origin_store[d].content) = d

\* C18 (content preservation), as claimed: between fault-free invocations,
\* every source path that held a regular file before the first invocation
\* reads back exactly the bytes it held then.
C18_ContentPreserved ==
  pc = "idle" =>
    \A rp \in RealPaths : origin[rp].kind = "file" => ReadsBack(rp)

\* C18, amended: the same when every entry that was in the store before the
\* first invocation held the bytes its name is the digest of.
C18_ContentPreservedIntactStore ==
  (pc = "idle" /\ StoreIntactAtStart) =>
    \A rp \in RealPaths : origin[rp].kind = "file" => ReadsBack(rp)

\* two real-mode invocations; files that differ in the last byte only were
\* rewired, one of them to an entry the store held before, and read back
C18_Witness ==
  /\ Ended /\ ~args.dry /\ prev.ran /\ ~prev.args.dry
  /\ StoreIntactAtStart /\ origin_store[hexdigest(ContentA)].present
  /\ origin["r1/d/f1"] = File(ContentA) /\ origin["r1/d/f2"] = File(ContentTail)
  /\ Rewired("r1/d/f1") /\ Rewired("r1/d/f2")
  /\ fs["r1/d/f1"] # fs["r1/d/f2"]
  /\ ReadsBack("r1/d/f1") /\ ReadsBack("r1/d/f2")

\* the totals of an invocation over its roots
RECURSIVE SumAdded(_)
SumAdded(r) == IF r = <<>> THEN 0 ELSE Head(r).added + SumAdded(Tail(r))
RECURSIVE SumSaved(_)
SumSaved(r) == IF r = <<>> THEN 0 ELSE Head(r).saved_size + SumSaved(Tail(r))
PairSet(j) == {<<j[k].source, j[k].target>> : k \in 1..Len(j)}

\* C19 (order independence), as claimed: two fault-free real-mode invocations
\* that start from the same source tree and store with the same transfer mode,
\* and differ in the order of the roots or in the order in which the walk
\* yields the candidates, end with the same canonical entries, the same
\* symlink target at every source path, the same set of (source, target)
\* pairs in the journal and the same added and saved-bytes totals.
C19_OrderIndependent ==
  (SameStart /\ args.copy = prev.args.copy) =>
    /\ store = prev.final.store
    /\ fs = prev.final.fs
    /\ PairSet(journal) = PairSet(prev.final.journal)
    /\ SumAdded(reports) = SumAdded(prev.reports)
    /\ SumSaved(reports) = SumSaved(prev.reports)
====
